---- MODULE Spec2Model ----
(***************************************************************************)
(* Model of the hazard pipeline of marrrkkk/earthquake:                    *)
(*   - the Convex store (earthquakes, users, alertSettings, notifications) *)
(*     with the mutations saveRealEarthquake, saveTestEarthquake,          *)
(*     processNewEarthquake, updateAlertSettings, createOrUpdateUser and   *)
(*     the scheduled internal mutation checkAndCreateNotification;         *)
(*   - the client polling loop of RealtimeEarthquakes;                     *)
(*   - the localStorage cache (getCached, setCache, fetchWithCache) and    *)
(*     its caller FloodDisplay.fetchFloods.                                *)
(* Convex mutations are transactions, so each handler is one action.       *)
(* Magnitudes are in tenths (62 = M6.2), distances in metres, times in     *)
(* abstract clock ticks.                                                   *)
(***************************************************************************)
EXTENDS Integers, Sequences, FiniteSets

VARIABLES
    earthquakes,    \* table "earthquakes": rows in insertion order
    users,          \* table "users": the clerkIds that have a row
    alertSettings,  \* table "alertSettings": clerkId -> settings row or NoSettings
    notifications,  \* table "notifications": set of rows
    jobs,           \* scheduler: pending checkAndCreateNotification calls, args -> count
    now,            \* Date.now()
    ops,            \* number of client operations issued so far
    processedIds,   \* RealtimeEarthquakes: processedIdsRef.current
    runs,           \* RealtimeEarthquakes: the calls of fetchAndSaveRealEarthquakes
    finished,       \* the upstream lists for which a polling run has completed
    storage,        \* localStorage: cache key -> CacheEntry or NoEntry
    calls,          \* the calls of fetchFloods (fetchWithCache) in flight
    returned,       \* outcome of the last completed fetchWithCache call
    log,            \* console messages of the last completed fetchWithCache call
    floods,         \* FloodDisplay state: floods
    error,          \* FloodDisplay state: error
    fetchedAt,      \* history: cache key -> when the fetch whose data it holds began
    storeUp,        \* whether the Convex deployment answers mutations
    cycle,          \* the call of getActiveFloods, getTyphoons or getEarthquakes
    calc            \* the evaluation of a pure function: its inputs and results

storeVars == <<earthquakes, users, alertSettings, notifications, jobs>>
pollVars == <<processedIds, runs, finished, storeUp>>
cacheVars == <<storage, calls, returned, log, floods, error, fetchedAt>>
libVars == <<cycle, calc>>

vars == <<storeVars, now, ops, pollVars, cacheVars, libVars>>

(***************************************************************************)
(* Bounds                                                                  *)
(***************************************************************************)
MaxOps == 4

MaxLiveOps == 3

MaxTime == 4

(***************************************************************************)
(* Input domains                                                           *)
(***************************************************************************)
Users == {"u1", "u2"}

Points == {"Centre", "Near", "Far"}

\* The arguments of a save mutation that the model tracks: id, magnitude and
\* coordinates. q1 is seen with two magnitudes, q2 at two places.
Quakes ==
    { [id |-> "q1", magnitude |-> 62, loc |-> "Near"],
      [id |-> "q1", magnitude |-> 45, loc |-> "Near"],
      [id |-> "q2", magnitude |-> 62, loc |-> "Far"],
      [id |-> "q2", magnitude |-> 50, loc |-> "Near"] }

EqIds == {q.id : q \in Quakes}

NoSettings == [absent |-> TRUE]
NoLocation == [absent |-> TRUE]

Fence == [centre |-> "Centre", radiusKm |-> 50]

SettingVals ==
    [enabled : BOOLEAN, minMagnitude : {50}, alertLocation : {NoLocation, Fence}]

(***************************************************************************)
(* calculateDistance: the haversine formula, tabulated in metres for the   *)
(* points of the model: Centre (14.0,121.0), Near (14.3,121.0),            *)
(* Far (14.72,121.0).                                                      *)
(***************************************************************************)
calculateDistance(p1, p2) ==
    IF p1 = p2 THEN 0
    ELSE IF {p1, p2} = {"Centre", "Near"} THEN 33358
    ELSE IF {p1, p2} = {"Centre", "Far"} THEN 80060
    ELSE 46702

(***************************************************************************)
(* Store queries                                                           *)
(***************************************************************************)
\* .query("earthquakes").filter(id = args.id).first(): index of the first row
\* with this id, 0 when there is none
FirstRowWithId(id) ==
    IF \E i \in DOMAIN earthquakes : earthquakes[i].id = id
    THEN CHOOSE i \in DOMAIN earthquakes :
            /\ earthquakes[i].id = id
            /\ \A j \in DOMAIN earthquakes : earthquakes[j].id = id => i <= j
    ELSE 0

\* .withIndex("by_isTest", isTest = true).filter(id = args.id).first()
FirstTestRowWithId(id) ==
    IF \E i \in DOMAIN earthquakes : earthquakes[i].isTest /\ earthquakes[i].id = id
    THEN CHOOSE i \in DOMAIN earthquakes :
            /\ earthquakes[i].isTest /\ earthquakes[i].id = id
            /\ \A j \in DOMAIN earthquakes :
                  (earthquakes[j].isTest /\ earthquakes[j].id = id) => i <= j
    ELSE 0

NewRow(args, isTest) ==
    [id |-> args.id, magnitude |-> args.magnitude, loc |-> args.loc,
     isTest |-> isTest, createdAt |-> now, updated |-> 0]

\* a patch that stamps createdAt again
PatchedRow_Restamp(existing, args, isTest) ==
    [id |-> args.id, magnitude |-> args.magnitude, loc |-> args.loc,
     isTest |-> isTest, createdAt |-> now, updated |-> now]

PatchedRow(existing, args, isTest) ==
    [id |-> args.id, magnitude |-> args.magnitude, loc |-> args.loc,
     isTest |-> isTest, createdAt |-> existing.createdAt, updated |-> now]

\* ctx.scheduler.runAfter(0, internal.alerts.checkAndCreateNotification, {...})
Schedule(args) == [jobs EXCEPT ![args] = @ + 1]

(***************************************************************************)
(* Mutations of the earthquakes table                                      *)
(***************************************************************************)
\* "Update existing (don't create notification for updates)"
SaveRealExisting_Reschedule(i, args) ==
    /\ earthquakes' = [earthquakes EXCEPT ![i] = PatchedRow(earthquakes[i], args, FALSE)]
    /\ jobs' = Schedule(args)

SaveRealExisting(i, args) ==
    /\ earthquakes' = [earthquakes EXCEPT ![i] = PatchedRow(earthquakes[i], args, FALSE)]
    /\ jobs' = jobs

\* the handler of saveRealEarthquake: what it does to the store
SaveRealHandler(args) ==
    LET i == FirstRowWithId(args.id) IN
      IF i # 0
      THEN SaveRealExisting(i, args)
      ELSE /\ earthquakes' = Append(earthquakes, NewRow(args, FALSE))
           /\ jobs' = Schedule(args)

\* saveRealEarthquake called directly by a client
SaveRealEarthquake(args) ==
    /\ ops < MaxOps
    /\ ops' = ops + 1
    /\ SaveRealHandler(args)
    /\ UNCHANGED <<users, alertSettings, notifications, now, pollVars, cacheVars, libVars>>

\* the lookup of saveTestEarthquake searches the rows with isTest = true only
SaveTestLookup(id) == FirstTestRowWithId(id)

SaveTestEarthquake(args) ==
    /\ ops < MaxOps
    /\ ops' = ops + 1
    /\ LET i == SaveTestLookup(args.id) IN
         IF i # 0
         THEN /\ earthquakes' =
                    [earthquakes EXCEPT ![i] = PatchedRow(earthquakes[i], args, TRUE)]
              /\ jobs' = jobs
         ELSE /\ earthquakes' = Append(earthquakes, NewRow(args, TRUE))
              /\ jobs' = Schedule(args)
    /\ UNCHANGED <<users, alertSettings, notifications, now, pollVars, cacheVars, libVars>>

ProcessNewEarthquake(args) ==
    /\ ops < MaxOps
    /\ ops' = ops + 1
    /\ LET i == FirstRowWithId(args.id) IN
         IF i # 0
         THEN UNCHANGED <<earthquakes, jobs>>
         ELSE /\ earthquakes' = Append(earthquakes, NewRow(args, FALSE))
              /\ jobs' = Schedule(args)
    /\ UNCHANGED <<users, alertSettings, notifications, now, pollVars, cacheVars, libVars>>

(***************************************************************************)
(* Users and alert settings                                                *)
(***************************************************************************)
CreateOrUpdateUser(u) ==
    /\ ops < MaxOps
    /\ ops' = ops + 1
    /\ users' = users \cup {u}
    /\ UNCHANGED <<earthquakes, alertSettings, notifications, jobs, now, pollVars, cacheVars, libVars>>

UpdateAlertSettings(u, val) ==
    /\ ops < MaxOps
    /\ ops' = ops + 1
    /\ alertSettings' = [alertSettings EXCEPT ![u] = val]
    /\ UNCHANGED <<earthquakes, users, notifications, jobs, now, pollVars, cacheVars, libVars>>

(***************************************************************************)
(* checkAndCreateNotification                                              *)
(***************************************************************************)
\* allSettings.filter(s => s.enabled), as the clerkIds of those rows
EnabledSettings ==
    {u \in Users : alertSettings[u] # NoSettings /\ alertSettings[u].enabled}

UsersToNotify_NoFallback == EnabledSettings

UsersToNotify ==
    IF EnabledSettings = {} THEN users ELSE EnabledSettings

\* enabledSettings.find(s => s.clerkId === clerkId)
SettingOf(u) ==
    IF u \in EnabledSettings THEN alertSettings[u] ELSE NoSettings

PassesMagnitude_Always(setting, job) == TRUE

PassesMagnitude_Strict(setting, job) == job.magnitude > setting.minMagnitude

PassesMagnitude(setting, job) == ~(job.magnitude < setting.minMagnitude)

PassesLocation_Always(setting, job) == TRUE

PassesLocation(setting, job) ==
    \/ setting.alertLocation = NoLocation
    \/ ~(calculateDistance(job.loc, setting.alertLocation.centre)
            > setting.alertLocation.radiusKm * 1000)

MatchesSettings(u, job) ==
    LET setting == SettingOf(u) IN
      \/ setting = NoSettings
      \/ PassesMagnitude(setting, job) /\ PassesLocation(setting, job)

NotificationCount(u, id) ==
    Cardinality({n \in notifications : n.clerkId = u /\ n.earthquakeId = id})

NotificationExists_Never(u, id) == FALSE

NotificationExists(u, id) ==
    \E n \in notifications : n.clerkId = u /\ n.earthquakeId = id

LocationText(u) ==
    LET setting == SettingOf(u) IN
      IF setting = NoSettings THEN "detected"
      ELSE IF setting.alertLocation # NoLocation THEN "within radius"
      ELSE "matching your criteria"

NotificationRow(u, job) ==
    [clerkId |-> u, earthquakeId |-> job.id, magnitude |-> job.magnitude,
     locationText |-> LocationText(u), createdAt |-> now,
     k |-> NotificationCount(u, job.id) + 1]

NotificationsToInsert(job) ==
    {NotificationRow(u, job) :
        u \in {x \in UsersToNotify :
                  MatchesSettings(x, job) /\ ~NotificationExists(x, job.id)}}

CheckAndCreateNotification(job) ==
    /\ jobs[job] > 0
    /\ jobs' = [jobs EXCEPT ![job] = @ - 1]
    /\ notifications' = notifications \cup NotificationsToInsert(job)
    /\ UNCHANGED <<earthquakes, users, alertSettings, now, ops, pollVars, cacheVars, libVars>>

(***************************************************************************)
(* The clock                                                               *)
(***************************************************************************)
Tick ==
    /\ now < MaxTime
    /\ now' = now + 1
    /\ UNCHANGED <<storeVars, ops, pollVars, cacheVars, libVars>>

(***************************************************************************)
(* RealtimeEarthquakes: the polling loop fetchAndSaveRealEarthquakes       *)
(***************************************************************************)
RunIds == {"r1", "r2"}

\* what getRealEarthquakes can return
Upstreams ==
    { << [id |-> "q1", magnitude |-> 62, loc |-> "Near"] >>,
      << [id |-> "q1", magnitude |-> 62, loc |-> "Near"],
         [id |-> "q2", magnitude |-> 62, loc |-> "Far"] >> }

IdleRun == [pc |-> "idle", list |-> <<>>, i |-> 0, snapshot |-> {}]

StoredIds == {earthquakes[i].id : i \in DOMAIN earthquakes}

\* The synchronous part of the for loop from position i: skip the ids already
\* processed in this session and those in existingEarthquakeIds (marking them
\* processed), up to the first earthquake to save.
RECURSIVE Skip(_, _, _, _)
Skip(list, i, snapshot, processed) ==
    IF i > Len(list) THEN [i |-> i, processed |-> processed]
    ELSE IF list[i].id \in processed THEN Skip(list, i + 1, snapshot, processed)
    ELSE IF list[i].id \in snapshot
         THEN Skip(list, i + 1, snapshot, processed \cup {list[i].id})
    ELSE [i |-> i, processed |-> processed]

\* run r goes on from position i: to its next await of saveRealEarthquake, or
\* to its end
Continue(r, list, i, processed) ==
    LET s == Skip(list, i, runs[r].snapshot, processed) IN
      /\ processedIds' = s.processed
      /\ IF s.i > Len(list)
         THEN /\ runs' = [runs EXCEPT ![r] = IdleRun]
              /\ finished' = finished \cup {list}
         ELSE /\ runs' = [runs EXCEPT ![r] =
                            [pc |-> "awaitSave", list |-> list, i |-> s.i,
                             snapshot |-> runs[r].snapshot]]
              /\ finished' = finished

\* The effect (or its interval) calls fetchAndSaveRealEarthquakes. The closure
\* holds existingEarthquakeIds: the ids of getAllEarthquakes as last rendered,
\* which is empty while the query loads and leaves out what the query's
\* 24-hour filter drops.
StartRun(r) ==
    /\ ops < MaxOps
    /\ ops' = ops + 1
    /\ runs[r].pc = "idle"
    /\ \E snap \in SUBSET StoredIds :
          runs' = [runs EXCEPT ![r] =
                     [pc |-> "fetching", list |-> <<>>, i |-> 0, snapshot |-> snap]]
    /\ UNCHANGED <<storeVars, now, processedIds, finished, storeUp, cacheVars, libVars>>

\* await getRealEarthquakes() returns
FetchReturn(r, list) ==
    /\ runs[r].pc = "fetching"
    /\ Continue(r, list, 1, processedIds)
    /\ UNCHANGED <<storeVars, now, ops, storeUp, cacheVars, libVars>>

\* await getRealEarthquakes() throws: logged, the run ends
FetchFail(r) ==
    /\ runs[r].pc = "fetching"
    /\ runs' = [runs EXCEPT ![r] = IdleRun]
    /\ UNCHANGED <<storeVars, now, ops, processedIds, finished, storeUp, cacheVars, libVars>>

\* await saveRealEarthquake(eq) returns: the mutation has run, the id is marked
\* processed and the loop goes on
SaveReturn(r) ==
    /\ runs[r].pc = "awaitSave"
    /\ storeUp
    /\ LET eq == runs[r].list[runs[r].i] IN
         /\ SaveRealHandler(eq)
         /\ Continue(r, runs[r].list, runs[r].i + 1, processedIds \cup {eq.id})
    /\ UNCHANGED <<users, alertSettings, notifications, now, ops, storeUp, cacheVars, libVars>>

\* await saveRealEarthquake(eq) throws (the deployment does not answer): the
\* catch logs, marks the id processed "anyway", and the loop goes on
SaveFail(r) ==
    /\ runs[r].pc = "awaitSave"
    /\ ~storeUp
    /\ LET eq == runs[r].list[runs[r].i] IN
         Continue(r, runs[r].list, runs[r].i + 1, processedIds \cup {eq.id})
    /\ UNCHANGED <<storeVars, now, ops, storeUp, cacheVars, libVars>>

\* setInterval calls fetchAndSaveRealEarthquakes again, every 2 minutes for
\* as long as the component is mounted
IntervalFires(r) ==
    /\ runs[r].pc = "idle"
    /\ \E snap \in SUBSET StoredIds :
          runs' = [runs EXCEPT ![r] =
                     [pc |-> "fetching", list |-> <<>>, i |-> 0, snapshot |-> snap]]
    /\ UNCHANGED <<storeVars, now, ops, processedIds, finished, storeUp, cacheVars, libVars>>

\* the Convex deployment stops answering, and answers again
StoreGoesDown ==
    /\ ops < MaxLiveOps
    /\ ops' = ops + 1
    /\ storeUp
    /\ storeUp' = FALSE
    /\ UNCHANGED <<storeVars, now, processedIds, runs, finished, cacheVars, libVars>>

StoreComesBack ==
    /\ ~storeUp
    /\ storeUp' = TRUE
    /\ UNCHANGED <<storeVars, now, ops, processedIds, runs, finished, cacheVars, libVars>>

\* the page is loaded again: a new component instance with a new ref
Remount ==
    /\ ops < MaxOps
    /\ ops' = ops + 1
    /\ \A r \in RunIds : runs[r].pc = "idle"
    /\ processedIds' = {}
    /\ UNCHANGED <<storeVars, now, runs, finished, storeUp, cacheVars, libVars>>

(***************************************************************************)
(* The localStorage cache                                                  *)
(***************************************************************************)
Keys == {"active-floods"}

CallIds == {"c1", "c2"}

Ttls == {1, 2}

\* what the fetch function (getActiveFloods) can return: a list of floods,
\* empty when there is no flood or no source answered
Datas == {{}, {"f1"}, {"f1", "f2"}}

NoEntry == [absent |-> TRUE]

IdleCall == [pc |-> "idle", ttl |-> 0, started |-> 0]

NothingReturned == [kind |-> "none", data |-> {}]

\* now - entry.timestamp > entry.ttl
IsExpired_AtTtl(entry, t) == t - entry.timestamp >= entry.ttl

IsExpired_Never(entry, t) == FALSE

IsExpired(entry, t) == t - entry.timestamp > entry.ttl

\* getCached: the value it returns (found = FALSE is null)
GetCachedResult(st, key, t) ==
    IF st[key] = NoEntry \/ IsExpired(st[key], t)
    THEN [found |-> FALSE, data |-> {}]
    ELSE [found |-> TRUE, data |-> st[key].data]

GetCachedStore_Keep(st, key, t) == st

\* getCached: localStorage after the call (an expired entry is removed)
GetCachedStore(st, key, t) ==
    IF st[key] # NoEntry /\ IsExpired(st[key], t)
    THEN [st EXCEPT ![key] = NoEntry]
    ELSE st

\* setCache
SetCache(st, key, data, ttl, t) ==
    [st EXCEPT ![key] = [data |-> data, timestamp |-> t, ttl |-> ttl]]

\* fetchFloods starts: setError(null), fetchWithCache awaits fetchFn
StartFetch(c, ttl) ==
    /\ ops < MaxOps
    /\ ops' = ops + 1
    /\ calls[c].pc = "idle"
    /\ calls' = [calls EXCEPT ![c] = [pc |-> "fetching", ttl |-> ttl, started |-> now]]
    /\ error' = "null"
    /\ UNCHANGED <<storeVars, now, pollVars, storage, returned, log, floods, fetchedAt, libVars>>

\* fetchFn returned data: it is cached and returned; fetchFloods shows it
FetchOk(c, data) ==
    /\ calls[c].pc = "fetching"
    /\ calls' = [calls EXCEPT ![c] = IdleCall]
    /\ storage' = SetCache(storage, "active-floods", data, calls[c].ttl, now)
    /\ fetchedAt' = [fetchedAt EXCEPT !["active-floods"] = calls[c].started]
    /\ returned' = [kind |-> "data", data |-> data]
    /\ log' = {}
    /\ floods' = data
    /\ UNCHANGED <<storeVars, now, ops, pollVars, error, libVars>>

\* what fetchWithCache does when fetchFn threw, given the result of getCached
FallbackFound(cached, st) ==
    /\ returned' = [kind |-> "data", data |-> cached.data]
    /\ log' = {"fetch failed", "using cached data"}
    /\ floods' = cached.data
    /\ error' = error
    /\ storage' = st

\* fetchWithCache rethrows; the catch of fetchFloods reads the cache again
FallbackMissing(st) ==
    LET again == GetCachedResult(st, "active-floods", now) IN
      /\ returned' = [kind |-> "throw", data |-> {}]
      /\ log' = {"fetch failed"}
      /\ IF again.found
         THEN floods' = again.data /\ error' = "offline"
         ELSE floods' = floods /\ error' = "failed"
      /\ storage' = GetCachedStore(st, "active-floods", now)

\* fetchFn threw
FetchThrow(c) ==
    /\ calls[c].pc = "fetching"
    /\ calls' = [calls EXCEPT ![c] = IdleCall]
    /\ LET cached == GetCachedResult(storage, "active-floods", now)
           st == GetCachedStore(storage, "active-floods", now)
       IN IF cached.found THEN FallbackFound(cached, st) ELSE FallbackMissing(st)
    /\ UNCHANGED <<storeVars, now, ops, pollVars, fetchedAt, libVars>>

(***************************************************************************)
(* Hazard fetch functions                                                  *)
(***************************************************************************)
MaxElems == 2

NoResult == [kind |-> "none"]

IdleCycle == [fn |-> "none", pc |-> "idle", got |-> <<>>, floodMap |-> <<>>,
              result |-> NoResult]

NoCalc == [fn |-> "none"]

NoResponse == [absent |-> TRUE]

\* what a source function returns to its caller, or that it threw
Returned(list) == [kind |-> "list", list |-> list]
Threw == [kind |-> "throw"]

(***************************************************************************)
(* Floods: fetchOpenMeteoFloodData                                         *)
(***************************************************************************)
\* two of the eight river basins; coordinates in 1/10000 degree
philippineBasins ==
    << [name |-> "Cagayan River", slug |-> "cagayan-river",
        coords |-> <<176167, 1217167>>],
       [name |-> "Pampanga River", slug |-> "pampanga-river",
        coords |-> <<150000, 1207000>>] >>

\* ratio > tenths / 10, for ratio = discharge / meanDischarge (the mean is
\* positive); compared exactly
RatioExceeds_OrEqual(discharge, mean, tenths) == discharge * 10 >= tenths * mean

RatioExceeds(discharge, mean, tenths) == discharge * 10 > tenths * mean

\* the if/else-if chain on the ratio
ClassifyRatio(discharge, mean) ==
    IF RatioExceeds(discharge, mean, 30) THEN [severity |-> "extreme", status |-> "alarm"]
    ELSE IF RatioExceeds(discharge, mean, 20) THEN [severity |-> "high", status |-> "alarm"]
    ELSE IF RatioExceeds(discharge, mean, 15) THEN [severity |-> "moderate", status |-> "alert"]
    ELSE IF RatioExceeds(discharge, mean, 12) THEN [severity |-> "low", status |-> "monitoring"]
    ELSE [severity |-> "low", status |-> "normal"]

\* "Only include if there's significant flooding"; discharge && meanDischarge
\* is false for 0
IsSignificant(discharge, mean) ==
    discharge # 0 /\ mean # 0 /\ RatioExceeds(discharge, mean, 12)

\* `openmeteo-${basin name, lower case, blanks to dashes}`
OpenMeteoFloodId(basin) == [src |-> "openmeteo", name |-> basin.slug, t |-> 0, n |-> 0]

OpenMeteoFlood(basin, discharge, mean) ==
    [id |-> OpenMeteoFloodId(basin), name |-> basin.name, coords |-> basin.coords,
     severity |-> ClassifyRatio(discharge, mean).severity,
     status |-> ClassifyRatio(discharge, mean).status,
     source |-> "Open-Meteo"]

\* the loop over the basins from basin i on; a basin whose request fails or
\* whose response lacks the discharge is skipped
RECURSIVE OpenMeteoFrom(_, _)
OpenMeteoFrom(resp, i) ==
    IF i > Len(philippineBasins) THEN <<>>
    ELSE IF resp[i] # NoResponse /\ IsSignificant(resp[i].discharge, resp[i].mean)
         THEN <<OpenMeteoFlood(philippineBasins[i], resp[i].discharge, resp[i].mean)>>
                 \o OpenMeteoFrom(resp, i + 1)
    ELSE OpenMeteoFrom(resp, i + 1)

fetchOpenMeteoFloodData(resp) == Returned(OpenMeteoFrom(resp, 1))

BasinResponses ==
    {NoResponse} \cup
    {[discharge |-> d, mean |-> 1000] : d \in {1000, 1300, 3500}}

OpenMeteoResponses == [1..Len(philippineBasins) -> BasinResponses]

(***************************************************************************)
(* Floods: fetchPAGASAFloodData                                            *)
(***************************************************************************)
NoCoordinates == [absent |-> TRUE]

\* getLocationCoordinates: three of the names the location pattern matches;
\* "ncr" is matched by the pattern and is not in the table
getLocationCoordinates(locationName) ==
    IF locationName = "cagayan"
    THEN [name |-> "Cagayan", coords |-> <<176167, 1217167>>]
    ELSE IF locationName = "pampanga"
    THEN [name |-> "Pampanga", coords |-> <<150794, 1206200>>]
    ELSE NoCoordinates

\* the severity read from the first severity word of the text ("none": the
\* text has no such word)
PagasaSeverity(word) ==
    IF word = "none" THEN "moderate"
    ELSE IF word \in {"extreme", "critical"} THEN "extreme"
    ELSE IF word \in {"high", "severe"} THEN "high"
    ELSE IF word = "moderate" THEN "moderate"
    ELSE "low"

PagasaStatus(severity) ==
    IF severity \in {"extreme", "high"} THEN "alarm"
    ELSE IF severity = "moderate" THEN "alert"
    ELSE "monitoring"

\* `pagasa-${locationName}-${Date.now()}-${foundCount}`
PagasaFloodId(locationName, t, foundCount) ==
    [src |-> "pagasa", name |-> locationName, t |-> t, n |-> foundCount]

PagasaFlood(el, t, foundCount) ==
    [id |-> PagasaFloodId(el.loc, t, foundCount),
     name |-> getLocationCoordinates(el.loc).name,
     coords |-> getLocationCoordinates(el.loc).coords,
     severity |-> PagasaSeverity(el.word),
     status |-> PagasaStatus(PagasaSeverity(el.word)),
     source |-> "PAGASA"]

\* the flood-related elements of the page from element i on; foundCount is
\* i, every element being flood-related
RECURSIVE PagasaFrom(_, _, _)
PagasaFrom(elements, i, t) ==
    IF i > Len(elements) THEN <<>>
    ELSE IF getLocationCoordinates(elements[i].loc) # NoCoordinates
         THEN <<PagasaFlood(elements[i], t, i)>> \o PagasaFrom(elements, i + 1, t)
    ELSE PagasaFrom(elements, i + 1, t)

\* page: the flood-related elements of the first page that could be read, or
\* NoPage when every URL failed
fetchPAGASAFloodData(page, t) ==
    IF ~page.ok THEN Returned(<<>>) ELSE Returned(PagasaFrom(page.elements, 1, t))

PagasaElements == [loc : {"cagayan", "pampanga", "ncr"}, word : {"none", "low", "critical"}]

NoPage == [ok |-> FALSE, elements |-> <<>>]

PagasaPages ==
    {NoPage} \cup
    {[ok |-> TRUE, elements |-> e] :
        e \in UNION {[1..n -> PagasaElements] : n \in 0..MaxElems}}

\* fetchAlternativeFloodData: a placeholder that returns no flood
fetchAlternativeFloodData == Returned(<<>>)

(***************************************************************************)
(* Floods: getActiveFloods                                                 *)
(***************************************************************************)
getSeverityLevel(severity) ==
    IF severity = "low" THEN 1
    ELSE IF severity = "moderate" THEN 2
    ELSE IF severity = "high" THEN 3
    ELSE IF severity = "extreme" THEN 4
    ELSE 0

\* floodMap is a Map in insertion order: a sequence of [key, val]
MapHas(map, key) == \E i \in DOMAIN map : map[i].key = key

MapSet(map, key, val) ==
    IF MapHas(map, key)
    THEN [i \in DOMAIN map |-> IF map[i].key = key THEN [key |-> key, val |-> val] ELSE map[i]]
    ELSE Append(map, [key |-> key, val |-> val])

\* Array.from(floodMap.values()).find(f => f.location.name === name): its
\* index, 0 when there is none
FindByName(map, name) ==
    IF \E i \in DOMAIN map : map[i].val.name = name
    THEN CHOOSE i \in DOMAIN map :
            /\ map[i].val.name = name
            /\ \A j \in DOMAIN map : map[j].val.name = name => i <= j
    ELSE 0

RECURSIVE SetAll(_, _, _)
SetAll(map, list, i) ==
    IF i > Len(list) THEN map
    ELSE SetAll(MapSet(map, list[i].id, list[i]), list, i + 1)

\* {...existing, ...flood, source: "PAGASA + Open-Meteo"}
MergedFlood(existing, flood) == [flood EXCEPT !.source = "PAGASA + Open-Meteo"]

\* the PAGASA forEach, for one flood
MergePagasaOne(map, flood) ==
    LET e == FindByName(map, flood.name) IN
      IF e # 0
      THEN IF getSeverityLevel(flood.severity) > getSeverityLevel(map[e].val.severity)
           THEN MapSet(map, map[e].key, MergedFlood(map[e].val, flood))
           ELSE map
      ELSE MapSet(map, flood.id, flood)

RECURSIVE MergePagasa(_, _, _)
MergePagasa(map, list, i) ==
    IF i > Len(list) THEN map
    ELSE MergePagasa(MergePagasaOne(map, list[i]), list, i + 1)

\* the alternative forEach: a flood is added when its location is not there
RECURSIVE MergeAlternative(_, _, _)
MergeAlternative(map, list, i) ==
    IF i > Len(list) THEN map
    ELSE MergeAlternative(
            IF FindByName(map, list[i].name) = 0
            THEN MapSet(map, list[i].id, list[i]) ELSE map,
            list, i + 1)

MapValues(map) == [i \in DOMAIN map |-> map[i].val]

HasLevel(f, l) == getSeverityLevel(f.severity) = l

\* allFloods.sort by severity level, highest first; the sort is stable
SortBySeverity(list) ==
    SelectSeq(list, LAMBDA f : HasLevel(f, 4)) \o SelectSeq(list, LAMBDA f : HasLevel(f, 3))
        \o SelectSeq(list, LAMBDA f : HasLevel(f, 2)) \o SelectSeq(list, LAMBDA f : HasLevel(f, 1))
        \o SelectSeq(list, LAMBDA f : HasLevel(f, 0))

\* getActiveFloods is called: it awaits fetchOpenMeteoFloodData
StartFloods ==
    /\ cycle.pc \in {"idle", "done"}
    /\ cycle' = [fn |-> "floods", pc |-> "openMeteo", got |-> <<>>, floodMap |-> <<>>,
                 result |-> NoResult]
    /\ UNCHANGED <<storeVars, now, ops, pollVars, cacheVars, calc>>

\* what getActiveFloods does with the outcome of a source: the catch around
\* each source logs and goes on with the map as it is
AfterSource_DropOnEmpty(map, outcome, merged) ==
    IF outcome.kind = "throw" \/ outcome.list = <<>> THEN <<>> ELSE merged

AfterSource(map, outcome, merged) ==
    IF outcome.kind = "throw" THEN map ELSE merged

\* what a cycle keeps of a source: what the source met and what it returned
Got(input, outcome) == [inp |-> input, out |-> outcome]

OpenMeteoReturns(resp) ==
    /\ cycle.fn = "floods" /\ cycle.pc = "openMeteo"
    /\ LET r == fetchOpenMeteoFloodData(resp) IN
         cycle' = [cycle EXCEPT
                     !.pc = "pagasa",
                     !.got = Append(@, Got(resp, r)),
                     !.floodMap = AfterSource(@, r, SetAll(@, r.list, 1))]
    /\ UNCHANGED <<storeVars, now, ops, pollVars, cacheVars, calc>>

PagasaReturns(page) ==
    /\ cycle.fn = "floods" /\ cycle.pc = "pagasa"
    /\ LET r == fetchPAGASAFloodData(page, now) IN
         cycle' = [cycle EXCEPT
                     !.pc = "alternative",
                     !.got = Append(@, Got(page, r)),
                     !.floodMap = AfterSource(@, r, MergePagasa(@, r.list, 1))]
    /\ UNCHANGED <<storeVars, now, ops, pollVars, cacheVars, calc>>

\* the alternative sources return, the map is converted, sorted and returned
AlternativeReturns ==
    /\ cycle.fn = "floods" /\ cycle.pc = "alternative"
    /\ LET r == fetchAlternativeFloodData
           map == AfterSource(cycle.floodMap, r, MergeAlternative(cycle.floodMap, r.list, 1))
       IN cycle' = [cycle EXCEPT
                      !.pc = "done",
                      !.got = Append(@, Got(NoResponse, r)),
                      !.floodMap = map,
                      !.result = Returned(SortBySeverity(MapValues(map)))]
    /\ UNCHANGED <<storeVars, now, ops, pollVars, cacheVars, calc>>

(***************************************************************************)
(* Specification of the store pipeline                                     *)
(***************************************************************************)
StoreInit ==
    /\ earthquakes = <<>>
    /\ alertSettings = [u \in Users |-> NoSettings]
    /\ notifications = {}
    /\ jobs = [q \in Quakes |-> 0]
    /\ now = 1
    /\ ops = 0

PollInit0 ==
    /\ processedIds = {}
    /\ runs = [r \in RunIds |-> IdleRun]
    /\ finished = {}
    /\ storeUp = TRUE

CacheInit0 ==
    /\ storage = [k \in Keys |-> NoEntry]
    /\ calls = [c \in CallIds |-> IdleCall]
    /\ returned = NothingReturned
    /\ log = {}
    /\ floods = {}
    /\ error = "null"
    /\ fetchedAt = [k \in Keys |-> 0]

LibInit0 ==
    /\ cycle = IdleCycle
    /\ calc = NoCalc

Init == StoreInit /\ users = {} /\ PollInit0 /\ CacheInit0 /\ LibInit0

ClientOp ==
    \/ \E q \in Quakes : SaveRealEarthquake(q)
    \/ \E q \in Quakes : SaveTestEarthquake(q)
    \/ \E q \in Quakes : ProcessNewEarthquake(q)
    \/ \E u \in Users : CreateOrUpdateUser(u)
    \/ \E u \in Users, val \in SettingVals : UpdateAlertSettings(u, val)

\* the scheduler runs a pending checkAndCreateNotification call
MatcherStep == \E q \in Quakes : CheckAndCreateNotification(q)

Next == ClientOp \/ MatcherStep

Spec == Init /\ [][Next]_vars

\* The same pipeline with fewer client operations, and the scheduler's
\* guarantee that a scheduled function is eventually run.
LiveNext == (ops < MaxLiveOps /\ ClientOp) \/ MatcherStep

LiveSpec ==
    /\ Init /\ [][LiveNext]_vars
    /\ \A q \in Quakes : WF_vars(CheckAndCreateNotification(q))

\* One browser session after another polling PHIVOLCS, with u1 signed up and
\* no alert settings stored.
PollInit == StoreInit /\ users = {"u1"} /\ PollInit0 /\ CacheInit0 /\ LibInit0

PollNext ==
    \/ \E r \in RunIds : StartRun(r)
    \/ \E r \in RunIds, list \in Upstreams : FetchReturn(r, list)
    \/ \E r \in RunIds : FetchFail(r)
    \/ \E r \in RunIds : SaveReturn(r)
    \/ Remount
    \/ MatcherStep

PollSpec == PollInit /\ [][PollNext]_vars

(***************************************************************************)
(* Typhoons: getTyphoons and its sources                                   *)
(***************************************************************************)
typhoonSources == <<"Windy", "PAGASA", "NOAA", "WeatherAPI">>

\* a storm as a source reports it: the source's own id for it and its name,
\* either of which may be missing ("")
StormRaws ==
    { [sid |-> "22W", name |-> "Pepito"],
      [sid |-> "", name |-> "Pepito"],
      [sid |-> "", name |-> ""] }

\* `windy-${storm.id || storm.name || Date.now()}`
WindyTyphoonId(storm, t) ==
    IF storm.sid # "" THEN [src |-> "windy", name |-> storm.sid, t |-> 0, n |-> 0]
    ELSE IF storm.name # "" THEN [src |-> "windy", name |-> storm.name, t |-> 0, n |-> 0]
    ELSE [src |-> "windy", name |-> "", t |-> t, n |-> 0]

\* `pagasa-${name.toLowerCase()}-${Date.now()}`
PagasaTyphoonId(storm, t) == [src |-> "pagasa", name |-> storm.name, t |-> t, n |-> 0]

\* `noaa-${name.toLowerCase()}-${Date.now()}`
NoaaTyphoonId(storm, t) == [src |-> "noaa", name |-> storm.name, t |-> t, n |-> 0]

\* `weatherapi-${index}-${Date.now()}`
WeatherApiTyphoonId(index, t) == [src |-> "weatherapi", name |-> "", t |-> t, n |-> index]

TyphoonId(source, storm, index, t) ==
    IF source = "Windy" THEN WindyTyphoonId(storm, t)
    ELSE IF source = "PAGASA" THEN PagasaTyphoonId(storm, t)
    ELSE IF source = "NOAA" THEN NoaaTyphoonId(storm, t)
    ELSE WeatherApiTyphoonId(index, t)

\* Windy names a nameless storm "Unnamed"; the scrapers of PAGASA and NOAA
\* drop an element in which they find no name; WeatherAPI falls back on
\* "Tropical Cyclone"
TyphoonName(source, storm) ==
    IF storm.name # "" THEN storm.name
    ELSE IF source = "Windy" THEN "Unnamed"
    ELSE "Tropical Cyclone"

IsParsed(source, storm) == source \in {"PAGASA", "NOAA"} => storm.name # ""

RECURSIVE TyphoonsFrom(_, _, _, _)
TyphoonsFrom(source, storms, i, t) ==
    IF i > Len(storms) THEN <<>>
    ELSE IF IsParsed(source, storms[i])
         THEN << [id |-> TyphoonId(source, storms[i], i - 1, t),
                  name |-> TyphoonName(source, storms[i]),
                  source |-> source] >> \o TyphoonsFrom(source, storms, i + 1, t)
    ELSE TyphoonsFrom(source, storms, i + 1, t)

\* a source function: its own catch turns a failed request into []
fetchTyphoonSource(source, feed, t) ==
    IF ~feed.ok THEN Returned(<<>>) ELSE Returned(TyphoonsFrom(source, feed.storms, 1, t))

NoFeed == [ok |-> FALSE, storms |-> <<>>]

TyphoonFeeds ==
    {NoFeed} \cup
    {[ok |-> TRUE, storms |-> e] : e \in UNION {[1..n -> StormRaws] : n \in 0..1}}

StartTyphoons ==
    /\ cycle.pc \in {"idle", "done"}
    /\ cycle' = [fn |-> "typhoons", pc |-> "source", got |-> <<>>, floodMap |-> <<>>,
                 result |-> NoResult]
    /\ UNCHANGED <<storeVars, now, ops, pollVars, cacheVars, calc>>

\* the next source of the chain returns: the first non-empty list is the
\* result, and after the last source the result is []
TyphoonSourceReturns(feed) ==
    /\ cycle.fn = "typhoons" /\ cycle.pc = "source"
    /\ LET i == Len(cycle.got) + 1
           r == fetchTyphoonSource(typhoonSources[i], feed, now)
       IN cycle' = [cycle EXCEPT
                      !.got = Append(@, Got(feed, r)),
                      !.pc = IF r.list # <<>> \/ i = Len(typhoonSources)
                             THEN "done" ELSE "source",
                      !.result = IF r.list # <<>> THEN Returned(r.list)
                                 ELSE IF i = Len(typhoonSources) THEN Returned(<<>>)
                                 ELSE NoResult]
    /\ UNCHANGED <<storeVars, now, ops, pollVars, cacheVars, calc>>

(***************************************************************************)
(* Earthquakes: getEarthquakes                                             *)
(***************************************************************************)
AlphaNumeric == {"03Nov2026", "04", "12", "13", "14", "30", "121", "00", "6", "2", "5"}

\* .replace(/[^a-zA-Z0-9-]/g, "-") on a string given as its pieces: a piece
\* is a run of letters and digits, or one other character
Sanitize(str) ==
    [i \in DOMAIN str |-> IF str[i] \in AlphaNumeric \cup {"-"} THEN str[i] ELSE "-"]

\* `${dateTime}-${latitude}-${longitude}-${magnitude}`, sanitized
generateId(eq) ==
    Sanitize(eq.dateTime \o <<"-">> \o eq.latitude \o <<"-">> \o eq.longitude
                \o <<"-">> \o eq.magnitude)

\* rows of the PHIVOLCS table: the cell texts, and what parsePhilippineTime
\* makes of the date (0: it cannot be parsed)
PhivolcsRows ==
    { [dateTime |-> <<"03Nov2026", " ", "04", ":", "12">>, parsed |-> 2,
       latitude |-> <<"14", ".", "30">>, longitude |-> <<"121", ".", "00">>,
       magnitude |-> <<"6", ".", "2">>],
      [dateTime |-> <<"03Nov2026", " ", "04", ":", "13">>, parsed |-> 3,
       latitude |-> <<"14", ".", "30">>, longitude |-> <<"121", ".", "00">>,
       magnitude |-> <<"5", ".", "2">>],
      [dateTime |-> <<"03Nov2026", "-", "04", "-", "12">>, parsed |-> 0,
       latitude |-> <<"14", "-", "30">>, longitude |-> <<"121", ".", "00">>,
       magnitude |-> <<"6", ".", "2">>] }

\* parsePhilippineTime: Date.now() when the date cannot be parsed
parsePhilippineTime(row, t) == IF row.parsed = 0 THEN t ELSE row.parsed

transformPHIVOLCSData(rows, t) ==
    [i \in DOMAIN rows |->
        [id |-> generateId(rows[i]), time |-> parsePhilippineTime(rows[i], t)]]

\* earthquakes.sort((a, b) => b.time - a.time): latest first, stable
RECURSIVE SortByTime(_, _)
SortByTime(list, times) ==
    IF times = {} THEN <<>>
    ELSE LET m == CHOOSE x \in times : \A y \in times : y <= x IN
           SelectSeq(list, LAMBDA e : e.time = m) \o SortByTime(list, times \ {m})

\* fetchPHIVOLCSEarthquakeData throws when the request fails, when the page
\* has no data table and when the table has no data row
PhivolcsOutcomes ==
    {[ok |-> FALSE, rows |-> <<>>]} \cup
    {[ok |-> TRUE, rows |-> e] : e \in UNION {[1..n -> PhivolcsRows] : n \in 1..2}}

fetchPHIVOLCSEarthquakeData(outcome) ==
    IF outcome.ok THEN Returned(outcome.rows) ELSE Threw

\* the catch of getEarthquakes
GetEarthquakesCatch_Rethrow == Threw

GetEarthquakesCatch == Returned(<<>>)

getEarthquakesResult(outcome, t) ==
    LET data == fetchPHIVOLCSEarthquakeData(outcome) IN
      IF data.kind = "throw" THEN GetEarthquakesCatch
      ELSE LET list == transformPHIVOLCSData(data.list, t) IN
             Returned(SortByTime(list, {list[i].time : i \in DOMAIN list}))

GetEarthquakes(outcome) ==
    /\ cycle.pc \in {"idle", "done"}
    /\ cycle' = [fn |-> "earthquakes", pc |-> "done",
                 got |-> <<Got(outcome, fetchPHIVOLCSEarthquakeData(outcome))>>,
                 floodMap |-> <<>>,
                 result |-> getEarthquakesResult(outcome, now)]
    /\ UNCHANGED <<storeVars, now, ops, pollVars, cacheVars, calc>>

(***************************************************************************)
(* calculateSignalNumber (distance in km)                                  *)
(***************************************************************************)
Categories == {"TD", "TS", "STS", "TY", "STY", "SuperTY"}

\* STY without its last step
calculateSignalNumber_ShortSTY(category, distance) ==
    IF category = "SuperTY"
    THEN IF distance <= 50 THEN 5 ELSE IF distance <= 100 THEN 4
         ELSE IF distance <= 200 THEN 3 ELSE IF distance <= 400 THEN 2
         ELSE IF distance <= 1000 THEN 1 ELSE 0
    ELSE IF category = "STY"
    THEN IF distance <= 50 THEN 4 ELSE IF distance <= 100 THEN 3
         ELSE IF distance <= 200 THEN 2 ELSE 0
    ELSE IF category = "TY"
    THEN IF distance <= 50 THEN 3 ELSE IF distance <= 100 THEN 2
         ELSE IF distance <= 300 THEN 1 ELSE 0
    ELSE IF category = "STS"
    THEN IF distance <= 50 THEN 2 ELSE IF distance <= 150 THEN 1 ELSE 0
    ELSE IF category = "TS" THEN IF distance <= 50 THEN 1 ELSE 0
    ELSE IF category = "TD" THEN IF distance <= 50 THEN 1 ELSE 0
    ELSE 0

\* TY with the results of its first two steps exchanged
calculateSignalNumber_SwappedTY(category, distance) ==
    IF category = "SuperTY"
    THEN IF distance <= 50 THEN 5 ELSE IF distance <= 100 THEN 4
         ELSE IF distance <= 200 THEN 3 ELSE IF distance <= 400 THEN 2
         ELSE IF distance <= 1000 THEN 1 ELSE 0
    ELSE IF category = "STY"
    THEN IF distance <= 50 THEN 4 ELSE IF distance <= 100 THEN 3
         ELSE IF distance <= 200 THEN 2 ELSE IF distance <= 500 THEN 1 ELSE 0
    ELSE IF category = "TY"
    THEN IF distance <= 50 THEN 2 ELSE IF distance <= 100 THEN 3
         ELSE IF distance <= 300 THEN 1 ELSE 0
    ELSE IF category = "STS"
    THEN IF distance <= 50 THEN 2 ELSE IF distance <= 150 THEN 1 ELSE 0
    ELSE IF category = "TS" THEN IF distance <= 50 THEN 1 ELSE 0
    ELSE IF category = "TD" THEN IF distance <= 50 THEN 1 ELSE 0
    ELSE 0

calculateSignalNumber(category, distance) ==
    IF category = "SuperTY"
    THEN IF distance <= 50 THEN 5 ELSE IF distance <= 100 THEN 4
         ELSE IF distance <= 200 THEN 3 ELSE IF distance <= 400 THEN 2
         ELSE IF distance <= 1000 THEN 1 ELSE 0
    ELSE IF category = "STY"
    THEN IF distance <= 50 THEN 4 ELSE IF distance <= 100 THEN 3
         ELSE IF distance <= 200 THEN 2 ELSE IF distance <= 500 THEN 1 ELSE 0
    ELSE IF category = "TY"
    THEN IF distance <= 50 THEN 3 ELSE IF distance <= 100 THEN 2
         ELSE IF distance <= 300 THEN 1 ELSE 0
    ELSE IF category = "STS"
    THEN IF distance <= 50 THEN 2 ELSE IF distance <= 150 THEN 1 ELSE 0
    ELSE IF category = "TS" THEN IF distance <= 50 THEN 1 ELSE 0
    ELSE IF category = "TD" THEN IF distance <= 50 THEN 1 ELSE 0
    ELSE 0

\* the distances at which a category changes its signal, and both sides of each
Breakpoints == {50, 100, 150, 200, 300, 400, 500, 1000}

Distances == {0} \cup {b + e : b \in Breakpoints, e \in {-1, 0, 1}}

\* two categories and two distances, and the three signals compared
SignalInputs ==
    [fn : {"signal"}, c1 : Categories, c2 : Categories, d1 : Distances, d2 : Distances,
     done : {FALSE}, s11 : {0}, s12 : {0}, s21 : {0}]

CalculateSignals ==
    /\ calc.fn = "signal" /\ ~calc.done
    /\ calc' = [calc EXCEPT
                  !.done = TRUE,
                  !.s11 = calculateSignalNumber(calc.c1, calc.d1),
                  !.s12 = calculateSignalNumber(calc.c1, calc.d2),
                  !.s21 = calculateSignalNumber(calc.c2, calc.d1)]
    /\ UNCHANGED <<storeVars, now, ops, pollVars, cacheVars, cycle>>

(***************************************************************************)
(* The classification of one basin by fetchOpenMeteoFloodData              *)
(***************************************************************************)
MaxDischarge == 65

Means == {10, 20}

RatioInputs ==
    [fn : {"ratio"}, discharge : 0..MaxDischarge, mean : Means, done : {FALSE},
     included : {FALSE}, severity : {"low"}, status : {"normal"}]

ClassifyBasin ==
    /\ calc.fn = "ratio" /\ ~calc.done
    /\ calc' = [calc EXCEPT
                  !.done = TRUE,
                  !.included = IsSignificant(calc.discharge, calc.mean),
                  !.severity = ClassifyRatio(calc.discharge, calc.mean).severity,
                  !.status = ClassifyRatio(calc.discharge, calc.mean).status]
    /\ UNCHANGED <<storeVars, now, ops, pollVars, cacheVars, cycle>>

(***************************************************************************)
(* The id given to one event by two fetches, at the times t1 and t2        *)
(***************************************************************************)
Times == 1..MaxTime

EarthquakeEvents == [hazard : {"earthquake"}, row : PhivolcsRows]

OpenMeteoEvents == [hazard : {"flood"}, source : {"Open-Meteo"}, basin : DOMAIN philippineBasins]

PagasaFloodEvents ==
    [hazard : {"flood"}, source : {"PAGASA"}, loc : {"cagayan", "pampanga"}, foundCount : {1}]

TyphoonEvents ==
    [hazard : {"typhoon"}, source : {"Windy", "PAGASA", "NOAA", "WeatherAPI"},
     storm : StormRaws]

\* the id that the fetch function of the event's source gives it at time t
IdOf(event, t) ==
    IF event.hazard = "earthquake" THEN transformPHIVOLCSData(<<event.row>>, t)[1].id
    ELSE IF event.hazard = "flood" /\ event.source = "Open-Meteo"
    THEN OpenMeteoFloodId(philippineBasins[event.basin])
    ELSE IF event.hazard = "flood"
    THEN PagasaFloodId(event.loc, t, event.foundCount)
    ELSE TyphoonId(event.source, event.storm, 0, t)

IdInputs(events) ==
    [fn : {"ids"}, event : events, t1 : Times, t2 : Times, done : {FALSE}]

FetchTwice ==
    /\ calc.fn = "ids" /\ ~calc.done
    /\ calc' = [fn |-> "ids", event |-> calc.event, t1 |-> calc.t1, t2 |-> calc.t2,
                done |-> TRUE,
                id1 |-> IdOf(calc.event, calc.t1), id2 |-> IdOf(calc.event, calc.t2)]
    /\ UNCHANGED <<storeVars, now, ops, pollVars, cacheVars, cycle>>

(***************************************************************************)
(* Scraping: one table row of PHIVOLCS, one advisory element of PAGASA     *)
(***************************************************************************)
MaxCellLen == 2

\* the characters of a cell text: a digit, the point, the sign, a letter
Chars == {"7", ".", "-", "N"}

IsDigit(c) == c = "7"

\* the trimmed texts of a table cell
CellTexts == UNION {[1..n -> Chars] : n \in 0..MaxCellLen}

\* a number: sign, integer part, and the digits after the point
Number(neg, int, frac) == [neg |-> neg, int |-> int, frac |-> frac]

Zero == Number(FALSE, 0, <<>>)

NaN == [nan |-> TRUE]

\* the index after the run of digits that starts at i
RECURSIVE DigitsEnd(_, _)
DigitsEnd(str, i) ==
    IF i <= Len(str) /\ IsDigit(str[i]) THEN DigitsEnd(str, i + 1) ELSE i

RECURSIVE DigitsValue(_)
DigitsValue(digits) ==
    IF digits = <<>> THEN 0
    ELSE DigitsValue(SubSeq(digits, 1, Len(digits) - 1)) * 10 + 7

HasDigit(str) == \E i \in DOMAIN str : IsDigit(str[i])

\* str.match(/(\d+\.?\d*)/): the match begins at the first digit
extractNumber(str) ==
    IF ~HasDigit(str) THEN Zero
    ELSE LET i == CHOOSE k \in DOMAIN str :
                     IsDigit(str[k]) /\ \A j \in 1..(k - 1) : ~IsDigit(str[j])
             e1 == DigitsEnd(str, i)
             e2 == IF e1 <= Len(str) /\ str[e1] = "." THEN DigitsEnd(str, e1 + 1) ELSE e1
         IN Number(FALSE, DigitsValue(SubSeq(str, i, e1 - 1)),
                   IF e2 > e1 THEN SubSeq(str, e1 + 1, e2 - 1) ELSE <<>>)

\* parseFloat: an optional sign, then digits with an optional fraction, or a
\* point followed by digits, at the start of the text; NaN otherwise
parseFloat(str) ==
    LET neg == str # <<>> /\ str[1] = "-"
        p == IF neg THEN 2 ELSE 1
        e1 == DigitsEnd(str, p)
        e2 == IF e1 <= Len(str) /\ str[e1] = "." THEN DigitsEnd(str, e1 + 1) ELSE e1
    IN IF e1 > p
       THEN Number(neg, DigitsValue(SubSeq(str, p, e1 - 1)),
                   IF e2 > e1 THEN SubSeq(str, e1 + 1, e2 - 1) ELSE <<>>)
       ELSE IF e2 > e1 + 1 THEN Number(neg, 0, SubSeq(str, e1 + 1, e2 - 1))
       ELSE NaN

\* the first cell of a row: of a data row, of the header row, of an empty row
DateTimeCells == {"08 November 2025 - 03:38 PM", "Date - Time (Philippine Time)", ""}

DateTimeLength(dateTime) ==
    IF dateTime = "08 November 2025 - 03:38 PM" THEN 27
    ELSE IF dateTime = "" THEN 0 ELSE 29

IncludesDate(dateTime) == dateTime = "Date - Time (Philippine Time)"

\* "Validate that this is a data row (has valid date and magnitude)"
IsDataRow(row) ==
    /\ row.dateTime # "" /\ row.magnitude # <<>>
    /\ DateTimeLength(row.dateTime) > 10
    /\ ~IncludesDate(row.dateTime)
    /\ parseFloat(row.magnitude) # NaN

\* what transformPHIVOLCSData makes of the numbers of a row
TransformedNumbers(row) ==
    [latitude |-> extractNumber(row.latitude),
     longitude |-> extractNumber(row.longitude),
     magnitude |-> extractNumber(row.magnitude)]

RowInputs ==
    [fn : {"row"}, dateTime : DateTimeCells, latitude : CellTexts,
     longitude : {<<>>, <<"7">>}, magnitude : CellTexts,
     done : {FALSE}, emitted : {FALSE}, record : {TransformedNumbers(
        [latitude |-> <<>>, longitude |-> <<>>, magnitude |-> <<>>])}]

\* one row goes through the row loop of fetchPHIVOLCSEarthquakeData and, when
\* it is pushed, through transformPHIVOLCSData
ScrapeRow ==
    /\ calc.fn = "row" /\ ~calc.done
    /\ calc' = [calc EXCEPT
                  !.done = TRUE,
                  !.emitted = IsDataRow(calc),
                  !.record = TransformedNumbers(calc)]
    /\ UNCHANGED <<storeVars, now, ops, pollVars, cacheVars, cycle>>

getCategoryFromWindSpeed(windSpeed) ==
    IF windSpeed >= 252 THEN "SuperTY" ELSE IF windSpeed >= 185 THEN "STY"
    ELSE IF windSpeed >= 118 THEN "TY" ELSE IF windSpeed >= 89 THEN "STS"
    ELSE IF windSpeed >= 62 THEN "TS" ELSE "TD"

\* what a pattern found in a text: null, or the value of the match
NoMatch == [found |-> FALSE, val |-> 0]

NoCoordsMatch == [found |-> FALSE, val |-> <<0, 0>>]

Match(val) == [found |-> TRUE, val |-> val]

\* an advisory element of the PAGASA page: what the name patterns, the
\* coordinate patterns (in its text, and in the text around it) and the wind
\* speed patterns find in it; coordinates in tenths of a degree
PagasaBlocks ==
    [name : {"", "Pepito"},
     coords : {NoCoordsMatch, Match(<<125, 1234>>)},
     nearbyCoords : {NoCoordsMatch, Match(<<130, 1240>>)},
     wind : {NoMatch, Match(65), Match(190)}]

\* parseWindSpeed: 0 when no pattern matches
parseWindSpeed(wind) == IF wind.found THEN wind.val ELSE 0

\* method 1 of fetchPAGASATyphoonData for one element
PagasaBlockEmitted(block) ==
    block.name # "" /\ (block.coords.found \/ block.nearbyCoords.found)

PagasaBlockTyphoon(block) ==
    [name |-> block.name,
     currentPosition |-> IF block.coords.found THEN block.coords.val
                         ELSE block.nearbyCoords.val,
     windSpeed |-> parseWindSpeed(block.wind),
     category |-> getCategoryFromWindSpeed(parseWindSpeed(block.wind))]

BlockInputs ==
    {[fn |-> "block", block |-> b, done |-> FALSE, emitted |-> FALSE,
      typhoon |-> PagasaBlockTyphoon(b)] : b \in PagasaBlocks}

ScrapeBlock ==
    /\ calc.fn = "block" /\ ~calc.done
    /\ calc' = [calc EXCEPT !.done = TRUE, !.emitted = PagasaBlockEmitted(calc.block)]
    /\ UNCHANGED <<storeVars, now, ops, pollVars, cacheVars, cycle>>

(***************************************************************************)
(* One PHIVOLCS row transformed twice, at the times t1 and t2              *)
(***************************************************************************)
NormalizeInputs ==
    [fn : {"normalize"}, row : PhivolcsRows, t1 : Times, t2 : Times, done : {FALSE}]

NormalizeTwice ==
    /\ calc.fn = "normalize" /\ ~calc.done
    /\ calc' = [fn |-> "normalize", row |-> calc.row, t1 |-> calc.t1, t2 |-> calc.t2,
                done |-> TRUE,
                eq1 |-> transformPHIVOLCSData(<<calc.row>>, calc.t1)[1],
                eq2 |-> transformPHIVOLCSData(<<calc.row>>, calc.t2)[1]]
    /\ UNCHANGED <<storeVars, now, ops, pollVars, cacheVars, cycle>>

(***************************************************************************)
(* StormAlert: the alert level of one storm (distance in km)               *)
(***************************************************************************)
\* the alertRadius table of getAlertLevel
LevelRadius(category) ==
    IF category = "TD" THEN 200 ELSE IF category = "TS" THEN 300
    ELSE IF category = "STS" THEN 400 ELSE IF category = "TY" THEN 500
    ELSE IF category = "STY" THEN 600 ELSE 700

\* distance <= radius * 0.3, distance <= radius * 0.6: compared exactly
getAlertLevel(distance, category) ==
    IF distance * 10 <= LevelRadius(category) * 3 THEN "warning"
    ELSE IF distance * 10 <= LevelRadius(category) * 6 THEN "alert"
    ELSE "watch"

\* the alertRadius table of calculateStorms
alertRadius(category) ==
    IF category = "TD" THEN 500 ELSE IF category = "TS" THEN 800
    ELSE IF category = "STS" THEN 1000 ELSE IF category = "TY" THEN 1200
    ELSE IF category = "STY" THEN 1500 ELSE 2000

monitoringRadius == 2500

\* the level from the distance, before the signal is looked at
DistanceLevel(distance, category) ==
    IF distance <= alertRadius(category) THEN getAlertLevel(distance, category)
    ELSE "watch"

\* "Upgrade alert level if signal is high"
SignalLevel(level, signalNumber) ==
    IF signalNumber > 0
    THEN IF signalNumber >= 4 THEN "warning"
         ELSE IF signalNumber >= 3 THEN "alert"
         ELSE level
    ELSE level

\* distances on both sides of 0.3 and 0.6 of a radius, of an alert radius
\* and of the monitoring radius
StormDistances == {0, 60, 61, 120, 121, 150, 151, 300, 301, 420, 421, 2000, 2001, 2500, 2501}

\* what getPSWSForLocation returns
SignalNumbers == 0..5

StormInputs ==
    [fn : {"storm"}, category : Categories, distance : StormDistances,
     signalNumber : SignalNumbers, done : {FALSE}, pushed : {FALSE},
     distanceLevel : {"watch"}, alertLevel : {"watch"}]

\* the body of the loop of calculateStorms for one typhoon
CalculateStorm ==
    /\ calc.fn = "storm" /\ ~calc.done
    /\ calc' = [calc EXCEPT
                  !.done = TRUE,
                  !.pushed = calc.distance <= monitoringRadius,
                  !.distanceLevel = DistanceLevel(calc.distance, calc.category),
                  !.alertLevel = SignalLevel(DistanceLevel(calc.distance, calc.category),
                                             calc.signalNumber)]
    /\ UNCHANGED <<storeVars, now, ops, pollVars, cacheVars, cycle>>

\* The pure functions, each applied to inputs drawn from its domain
CalcInit ==
    /\ StoreInit /\ users = {} /\ PollInit0 /\ CacheInit0
    /\ cycle = IdleCycle
    /\ \/ calc \in SignalInputs
       \/ calc \in RatioInputs
       \/ calc \in IdInputs(EarthquakeEvents)
       \/ calc \in IdInputs(OpenMeteoEvents)
       \/ calc \in IdInputs(PagasaFloodEvents)
       \/ calc \in IdInputs(TyphoonEvents)
       \/ calc \in RowInputs
       \/ calc \in BlockInputs
       \/ calc \in NormalizeInputs
       \/ calc \in StormInputs

CalcNext ==
    \/ CalculateSignals \/ ClassifyBasin \/ FetchTwice
    \/ ScrapeRow \/ ScrapeBlock \/ NormalizeTwice \/ CalculateStorm

CalcSpec == CalcInit /\ [][CalcNext]_vars

\* One browser session that stays open: the interval keeps firing, PHIVOLCS
\* answers every fetch, a pending save returns or fails, an outage of the
\* store ends, and the scheduler runs what is scheduled.
PollLiveNext ==
    \/ \E r \in RunIds : IntervalFires(r)
    \/ \E r \in RunIds, list \in Upstreams : FetchReturn(r, list)
    \/ \E r \in RunIds : SaveReturn(r)
    \/ \E r \in RunIds : SaveFail(r)
    \/ StoreGoesDown
    \/ StoreComesBack
    \/ MatcherStep

PollLiveSpec ==
    /\ PollInit /\ [][PollLiveNext]_vars
    /\ WF_vars(\E r \in RunIds : IntervalFires(r))
    /\ WF_vars(\E r \in RunIds, list \in Upstreams : FetchReturn(r, list))
    /\ WF_vars(\E r \in RunIds : SaveReturn(r) \/ SaveFail(r))
    /\ WF_vars(StoreComesBack)
    /\ WF_vars(MatcherStep)

(***************************************************************************)
(* The test-data mutations, and the earthquakes table under every mutation *)
(* that writes it                                                          *)
(***************************************************************************)
RemoveAt(rows, i) == SubSeq(rows, 1, i - 1) \o SubSeq(rows, i + 1, Len(rows))

\* deleteTestEarthquake: ctx.db.delete(args.id), for the _id of a stored row
DeleteTestEarthquake(i) ==
    /\ ops < MaxOps
    /\ ops' = ops + 1
    /\ i \in DOMAIN earthquakes
    /\ earthquakes' = RemoveAt(earthquakes, i)
    /\ UNCHANGED <<users, alertSettings, notifications, jobs, now, pollVars, cacheVars, libVars>>

\* the rows that clearAllTestEarthquakes keeps
ClearKeeps(row) == ~row.isTest

ClearAllTestEarthquakes ==
    /\ ops < MaxOps
    /\ ops' = ops + 1
    /\ earthquakes' = SelectSeq(earthquakes, ClearKeeps)
    /\ UNCHANGED <<users, alertSettings, notifications, jobs, now, pollVars, cacheVars, libVars>>

\* one set of arguments per earthquake id
TableQuakes == {q \in Quakes : q.magnitude = 62}

TableNext ==
    \/ \E q \in TableQuakes : SaveRealEarthquake(q)
    \/ \E q \in TableQuakes : SaveTestEarthquake(q)
    \/ \E q \in TableQuakes : ProcessNewEarthquake(q)
    \/ \E i \in DOMAIN earthquakes : DeleteTestEarthquake(i)
    \/ ClearAllTestEarthquakes
    \/ Tick

TableSpec == Init /\ [][TableNext]_vars

\* The server actions fetching from their sources, at one time of the clock
FetchNext ==
    \/ StartFloods
    \/ \E resp \in OpenMeteoResponses : OpenMeteoReturns(resp)
    \/ \E page \in PagasaPages : PagasaReturns(page)
    \/ AlternativeReturns
    \/ StartTyphoons
    \/ \E feed \in TyphoonFeeds : TyphoonSourceReturns(feed)
    \/ \E outcome \in PhivolcsOutcomes : GetEarthquakes(outcome)

FetchSpec == Init /\ [][FetchNext]_vars

\* FloodDisplay fetching through the cache
CacheNext ==
    \/ \E c \in CallIds, ttl \in Ttls : StartFetch(c, ttl)
    \/ \E c \in CallIds, data \in Datas : FetchOk(c, data)
    \/ \E c \in CallIds : FetchThrow(c)
    \/ Tick

CacheSpec == Init /\ [][CacheNext]_vars

\* getCached("active-floods") is called: what it was called on (the entry of
\* the key and the time), and what it returned; written is the data of the
\* latest setCache of the key
GetCached ==
    /\ ops < MaxOps
    /\ ops' = ops + 1
    /\ LET r == GetCachedResult(storage, "active-floods", now) IN
         returned' = [kind |-> "read", entry |-> storage["active-floods"], at |-> now,
                      written |-> floods, found |-> r.found, data |-> r.data]
    /\ storage' = GetCachedStore(storage, "active-floods", now)
    /\ UNCHANGED <<storeVars, now, pollVars, calls, log, floods, error, fetchedAt, libVars>>

\* The cache written by fetchWithCache and read by getCached as time passes
CacheReadNext ==
    \/ \E c \in CallIds, ttl \in Ttls : StartFetch(c, ttl)
    \/ \E c \in CallIds, data \in Datas : FetchOk(c, data)
    \/ GetCached
    \/ Tick

CacheReadSpec == Init /\ [][CacheReadNext]_vars

(***************************************************************************)
(* Helpers of the properties                                               *)
(***************************************************************************)
HasSettings(u) == alertSettings[u] # NoSettings

IsEnabled(u) == HasSettings(u) /\ alertSettings[u].enabled

NoJobPending == \A q \in Quakes : jobs[q] = 0

RowsWithId(id) == {i \in DOMAIN earthquakes : earthquakes[i].id = id}

\* the matcher run of this step, if the step is one: the job it consumed
RanJob(q) == jobs'[q] < jobs[q]

Inserted == notifications' \ notifications

(***************************************************************************)
(* C1: after any sequence of saveRealEarthquake, saveTestEarthquake,       *)
(* processNewEarthquake and the matcher runs they schedule (pending runs   *)
(* for one id execute in any order), there is at most one notification    *)
(* row for any (clerkId, earthquakeId) pair.                               *)
(***************************************************************************)
C1_AtMostOneNotificationPerPair ==
    \A u \in Users, id \in EqIds : NotificationCount(u, id) <= 1

\* two rows share the id q1, so the matcher was scheduled twice for q1; both
\* runs are done and u1 holds its notification
C1_Witness ==
    /\ Cardinality(RowsWithId("q1")) = 2
    /\ NoJobPending
    /\ NotificationCount("u1", "q1") = 1

(***************************************************************************)
(* C2: when a polling run has completed for an upstream list, a further    *)
(* run over the same list leaves the stored earthquakes as they are (the   *)
(* same rows, compared without the `updated` stamp that a repeated save    *)
(* refreshes), schedules no matcher run and creates no notification.       *)
(***************************************************************************)
StoredEarthquakes ==
    {[id |-> earthquakes[i].id, magnitude |-> earthquakes[i].magnitude,
      loc |-> earthquakes[i].loc, isTest |-> earthquakes[i].isTest,
      createdAt |-> earthquakes[i].createdAt] : i \in DOMAIN earthquakes}

\* run r takes a step of a cycle whose upstream list has been through a
\* completed cycle
RepeatedCycleStep(r) ==
    /\ runs[r].pc = "awaitSave"
    /\ runs'[r] # runs[r]
    /\ runs[r].list \in finished

C3_ScheduledOnlyOnFirstSighting ==
    [][\A q \in Quakes : jobs'[q] > jobs[q] => RowsWithId(q.id) = {}]_vars

(***************************************************************************)
(* C4: once saveTestEarthquake has inserted a test row and scheduled the   *)
(* matcher, a subscriber whose settings are enabled, without geofence and  *)
(* with minMagnitude <= the event's magnitude eventually has exactly one   *)
(* notification for that id (while the settings stay as they are).         *)
(***************************************************************************)
Eligible(u, q) ==
    /\ IsEnabled(u)
    /\ alertSettings[u].alertLocation = NoLocation
    /\ alertSettings[u].minMagnitude <= q.magnitude

Injected(q) ==
    /\ jobs[q] > 0
    /\ \E i \in RowsWithId(q.id) :
          earthquakes[i].isTest /\ earthquakes[i].magnitude = q.magnitude

C4_EventuallyExactlyOne ==
    \A u \in Users, q \in Quakes :
        (Injected(q) /\ Eligible(u, q))
            ~> (NotificationCount(u, q.id) = 1 \/ ~Eligible(u, q))

C4_Witness ==
    /\ \E i \in RowsWithId("q2") :
          earthquakes[i].isTest /\ earthquakes[i].magnitude = 50
    /\ Len(earthquakes) = 1
    /\ NoJobPending
    /\ Eligible("u1", [id |-> "q2", magnitude |-> 50, loc |-> "Near"])
    /\ \E n \in notifications :
          /\ n.clerkId = "u1" /\ n.earthquakeId = "q2" /\ n.magnitude = 50
          /\ n.locationText = "matching your criteria"
    /\ NotificationCount("u1", "q2") = 1

(***************************************************************************)
(* C5: a matcher run never inserts a notification for a subscriber with    *)
(* enabled settings when the earthquake's magnitude is strictly below the  *)
(* subscriber's minMagnitude.                                              *)
(***************************************************************************)
C5_NeverBelowMinMagnitude ==
    [][\A q \in Quakes : RanJob(q) =>
          \A n \in Inserted :
              IsEnabled(n.clerkId) =>
                  ~(q.magnitude < alertSettings[n.clerkId].minMagnitude)]_vars

\* the M4.5 and the M5.0 earthquake have both been evaluated: u1 (threshold
\* 5.0, no fence) was notified of the M5.0 one only
C5_Witness ==
    /\ Len(earthquakes) = 2
    /\ earthquakes[1].id = "q1" /\ earthquakes[1].magnitude = 45
    /\ earthquakes[2].id = "q2" /\ earthquakes[2].magnitude = 50
    /\ NoJobPending
    /\ IsEnabled("u1")
    /\ ops = 3
    /\ NotificationCount("u1", "q1") = 0
    /\ \E n \in notifications :
          /\ n.clerkId = "u1" /\ n.earthquakeId = "q2" /\ n.magnitude = 50
          /\ n.locationText = "matching your criteria"

(***************************************************************************)
(* C6: a matcher run never inserts a notification for a subscriber with    *)
(* enabled settings and a geofence when the earthquake lies farther than   *)
(* radiusKm from the geofence centre, whatever the magnitude.              *)
(***************************************************************************)
C6_NeverOutsideGeofence ==
    [][\A q \in Quakes : RanJob(q) =>
          \A n \in Inserted :
              (IsEnabled(n.clerkId)
                  /\ alertSettings[n.clerkId].alertLocation # NoLocation) =>
                  ~(calculateDistance(q.loc, alertSettings[n.clerkId].alertLocation.centre)
                      > alertSettings[n.clerkId].alertLocation.radiusKm * 1000)]_vars

\* the M6.2 earthquake 80 km from the centre has been evaluated; u1 (fence of
\* 50 km) has nothing, u2 (no fence) was notified
C6_Witness ==
    /\ Len(earthquakes) = 1
    /\ earthquakes[1].magnitude = 62 /\ earthquakes[1].loc = "Far"
    /\ NoJobPending
    /\ IsEnabled("u1") /\ alertSettings["u1"].alertLocation = Fence
    /\ IsEnabled("u2") /\ alertSettings["u2"].alertLocation = NoLocation
    /\ NotificationCount("u1", "q2") = 0
    /\ NotificationCount("u2", "q2") = 1

(***************************************************************************)
(* C7: a matcher run never inserts a notification for a user whose alert   *)
(* settings row has enabled = false.                                       *)
(***************************************************************************)
C7_DisabledNeverNotified ==
    [][\A n \in Inserted :
          ~(HasSettings(n.clerkId) /\ ~alertSettings[n.clerkId].enabled)]_vars

(***************************************************************************)
(* C8: when no alert settings row exists at all, a matcher run leaves      *)
(* every user of the users table with a notification for the earthquake,  *)
(* whatever its magnitude and location.                                    *)
(***************************************************************************)
C8_NotifyEveryoneWithoutSettings ==
    [][\A q \in Quakes :
          (RanJob(q) /\ \A u \in Users : ~HasSettings(u)) =>
              \A u \in users :
                  \E n \in notifications' :
                      n.clerkId = u /\ n.earthquakeId = q.id]_vars

C8_Witness ==
    /\ \A u \in Users : ~HasSettings(u)
    /\ users = Users
    /\ NoJobPending
    /\ \A u \in Users :
          \E n \in notifications :
              /\ n.clerkId = u /\ n.earthquakeId = "q1" /\ n.magnitude = 45
              /\ n.locationText = "detected"

(***************************************************************************)
(* C9 as stated: whenever the fetch fails and the cache holds a non-empty   *)
(* set from an earlier successful fetch, fresh or not, the caller receives *)
(* that set.                                                               *)
(***************************************************************************)
\* call c completes in this step with its fetch function having thrown
FailedFetchStep(c) ==
    /\ calls[c].pc = "fetching"
    /\ calls'[c].pc = "idle"
    /\ "fetch failed" \in log'

WriteStep(c) ==
    /\ calls[c].pc = "fetching"
    /\ calls'[c].pc = "idle"
    /\ log' = {}

C11_OlderWriteDoesNotReplaceFresher ==
    [][\A c \in CallIds :
          (/\ WriteStep(c)
           /\ storage["active-floods"] # NoEntry
           /\ calls[c].started < fetchedAt["active-floods"]) =>
              storage'["active-floods"] = storage["active-floods"]]_vars

(***************************************************************************)
(* C12: in a cycle of getActiveFloods or getTyphoons every source that is  *)
(* asked is collected: a source that failed contributed the empty list,    *)
(* the cycle ended with a list all the same, and every record that a       *)
(* source returned appears in that list (a flood under its location name   *)
(* with at least its severity, a typhoon as it was returned).              *)
(***************************************************************************)
\* the source met a failure: no basin answered, no page or feed could be read
SourceFailed(i) ==
    LET inp == cycle.got[i].inp IN
      \/ cycle.fn = "floods" /\ i = 1 /\ \A b \in DOMAIN inp : inp[b] = NoResponse
      \/ cycle.fn = "floods" /\ i = 2 /\ inp = NoPage
      \/ cycle.fn = "typhoons" /\ inp = NoFeed

Appears(rec, out) ==
    IF cycle.fn = "floods"
    THEN \E k \in DOMAIN out :
            /\ out[k].name = rec.name
            /\ getSeverityLevel(out[k].severity) >= getSeverityLevel(rec.severity)
    ELSE \E k \in DOMAIN out : out[k] = rec

NothingObtained ==
    \A i \in DOMAIN cycle.got :
        cycle.got[i].out.kind = "throw" \/ cycle.got[i].out.list = <<>>

C13_FetchFunctionsNeverThrow ==
    cycle.pc = "done" =>
        /\ cycle.result.kind = "list"
        /\ NothingObtained => cycle.result.list = <<>>

\* fetchPHIVOLCSEarthquakeData threw and getEarthquakes returned []
C13_Witness ==
    /\ cycle.fn = "earthquakes" /\ cycle.pc = "done"
    /\ cycle.got[1].out = Threw
    /\ cycle.result = Returned(<<>>)

(***************************************************************************)
(* C14: when the save of a fetched earthquake has failed in a polling      *)
(* cycle and PHIVOLCS goes on listing the earthquake, it is eventually     *)
(* stored: a later cycle of the open session saves it once the store       *)
(* answers again.                                                          *)
(***************************************************************************)
\* the save of this id has failed: the loop is past it and it is not stored
SaveHasFailed(id) == id \in processedIds /\ id \notin StoredIds

\* the earthquakes that every fetch of PHIVOLCS lists
AlwaysListed ==
    {id \in EqIds : \A list \in Upstreams : \E i \in DOMAIN list : list[i].id = id}

C14_FailedSaveIsRetried ==
    \A id \in AlwaysListed : SaveHasFailed(id) ~> (id \in StoredIds)

(***************************************************************************)
(* C15: two fetches of the same event, at whatever times, give it the same *)
(* id, for an earthquake, a typhoon and a flood alike.                     *)
(***************************************************************************)
C15_IdIndependentOfFetchTime ==
    (calc.fn = "ids" /\ calc.done) => calc.id1 = calc.id2

(***************************************************************************)
(* C16: when Open-Meteo and PAGASA report a flood at the same location     *)
(* (the same coordinates) with different severities, every record of that  *)
(* location in the result of getActiveFloods carries the higher severity.  *)
(***************************************************************************)
FloodsDone == cycle.fn = "floods" /\ cycle.pc = "done"

\* the records that the sources returned in this cycle, all sources together
Reported ==
    UNION {{cycle.got[i].out.list[j] : j \in DOMAIN cycle.got[i].out.list} :
              i \in DOMAIN cycle.got}

ResultRecords == {cycle.result.list[k] : k \in DOMAIN cycle.result.list}

FromDifferentSources(a, b) == a.source # b.source /\ a.coords = b.coords

C16_MergedSeverityIsTheHigher ==
    FloodsDone =>
        \A a \in Reported, b \in Reported :
            (/\ FromDifferentSources(a, b)
             /\ getSeverityLevel(a.severity) < getSeverityLevel(b.severity)) =>
                \A o \in ResultRecords :
                    o.coords = a.coords =>
                        getSeverityLevel(o.severity) >= getSeverityLevel(b.severity)

(***************************************************************************)
(* C17: when Open-Meteo and PAGASA both report a flood at a location, the  *)
(* record of that location in the result names both sources, whichever     *)
(* record's severity was kept.                                             *)
(***************************************************************************)
NamesBothSources(o) == o.source = "PAGASA + Open-Meteo"

C17_ProvenanceIsTheUnion ==
    FloodsDone =>
        \A a \in Reported, b \in Reported :
            FromDifferentSources(a, b) =>
                \A o \in ResultRecords : o.coords = a.coords => NamesBothSources(o)

(***************************************************************************)
(* C18: with r = discharge / mean, a basin with r <= 1.2 gives no flood    *)
(* record; 1.2 < r <= 1.5 gives low and monitoring; 1.5 < r <= 2.0 gives   *)
(* moderate and alert; 2.0 < r <= 3.0 gives high and alarm; r > 3.0 gives  *)
(* extreme and alarm.                                                      *)
(***************************************************************************)
\* lo / 10 < r <= hi / 10
RatioWithin(lo, hi) ==
    /\ calc.discharge * 10 > lo * calc.mean
    /\ calc.discharge * 10 <= hi * calc.mean

Classified(severity, status) ==
    calc.included /\ calc.severity = severity /\ calc.status = status

C18_ClassificationByRatio ==
    (calc.fn = "ratio" /\ calc.done) =>
        /\ calc.discharge * 10 <= 12 * calc.mean => ~calc.included
        /\ RatioWithin(12, 15) => Classified("low", "monitoring")
        /\ RatioWithin(15, 20) => Classified("moderate", "alert")
        /\ RatioWithin(20, 30) => Classified("high", "alarm")
        /\ calc.discharge * 10 > 30 * calc.mean => Classified("extreme", "alarm")

\* a ratio of exactly 3.0 was classified high and alarm
C18_Witness ==
    /\ calc.fn = "ratio" /\ calc.done
    /\ calc.discharge = 60 /\ calc.mean = 20
    /\ Classified("high", "alarm")

(***************************************************************************)
(* C19: for a fixed category the signal number does not increase with the  *)
(* distance: signal(c, d1) >= signal(c, d2) whenever d1 <= d2.             *)
(***************************************************************************)
C19_SignalNonIncreasingInDistance ==
    (calc.fn = "signal" /\ calc.done /\ calc.d1 <= calc.d2) => calc.s11 >= calc.s12

\* a typhoon at 100 km and at 101 km: signal 2, then signal 1
C19_Witness ==
    /\ calc.fn = "signal" /\ calc.done
    /\ calc.c1 = "TY" /\ calc.d1 = 100 /\ calc.d2 = 101
    /\ calc.s11 = 2 /\ calc.s12 = 1

(***************************************************************************)
(* C20: at one distance a stronger category (TD < TS < STS < TY < STY <    *)
(* SuperTY) has a signal number at least that of a weaker one, and every   *)
(* signal number is one of 0..5.                                           *)
(***************************************************************************)
CategoryRank(c) ==
    IF c = "TD" THEN 1 ELSE IF c = "TS" THEN 2 ELSE IF c = "STS" THEN 3
    ELSE IF c = "TY" THEN 4 ELSE IF c = "STY" THEN 5 ELSE 6

C20_SignalNonDecreasingInCategory ==
    (calc.fn = "signal" /\ calc.done) =>
        /\ CategoryRank(calc.c1) >= CategoryRank(calc.c2) => calc.s11 >= calc.s21
        /\ {calc.s11, calc.s12, calc.s21} \subseteq 0..5

\* at 301 km a severe typhoon still has signal 1 and a typhoon has none
C20_Witness ==
    /\ calc.fn = "signal" /\ calc.done
    /\ calc.c1 = "STY" /\ calc.c2 = "TY" /\ calc.d1 = 301
    /\ calc.s11 = 1 /\ calc.s21 = 0

(***************************************************************************)
(* C21: a scraped record is emitted only if its coordinate pair and its    *)
(* magnitude (for a typhoon, its wind speed) could be parsed: a PHIVOLCS   *)
(* row is pushed only if the latitude cell, the longitude cell and the     *)
(* magnitude cell each hold a number, and a PAGASA element only if         *)
(* coordinates and a wind speed were found for it.                         *)
(***************************************************************************)
C21_EmittedOnlyIfParseable ==
    /\ (calc.fn = "row" /\ calc.done /\ calc.emitted) =>
          /\ HasDigit(calc.latitude) /\ HasDigit(calc.longitude)
          /\ parseFloat(calc.magnitude) # NaN
    /\ (calc.fn = "block" /\ calc.done /\ calc.emitted) =>
          /\ calc.block.coords.found \/ calc.block.nearbyCoords.found
          /\ calc.block.wind.found

(***************************************************************************)
(* C22: transforming the same raw PHIVOLCS row gives the same earthquake   *)
(* record (the same id and the same time among its fields), whenever the   *)
(* transformation runs.                                                    *)
(***************************************************************************)
C22_NormalizationIsDeterministic ==
    (calc.fn = "normalize" /\ calc.done) =>
        /\ calc.eq1.id = calc.eq2.id
        /\ calc.eq1.time = calc.eq2.time

(***************************************************************************)
(* C23: a stored earthquake is marked synthetic exactly when               *)
(* saveTestEarthquake inserted it: the mark a row got at its insertion     *)
(* (isTest = true from saveTestEarthquake, false from the real saves) is   *)
(* the mark it has after any later operation that keeps the row.           *)
(***************************************************************************)
\* the step deletes no row: the rows keep their positions
KeepsRows == Len(earthquakes') >= Len(earthquakes)

C23_SyntheticMarkIsKept ==
    [][KeepsRows =>
          \A i \in DOMAIN earthquakes : earthquakes'[i].isTest = earthquakes[i].isTest]_vars

(***************************************************************************)
(* C24: the createdAt of a row is the time of its insertion, and no later  *)
(* save (saveRealEarthquake, saveTestEarthquake, processNewEarthquake, of  *)
(* this id or another) changes it.                                         *)
(***************************************************************************)
C24_CreatedAtSetOnce ==
    [][KeepsRows =>
          /\ \A i \in DOMAIN earthquakes :
                earthquakes'[i].createdAt = earthquakes[i].createdAt
          /\ \A i \in DOMAIN earthquakes' \ DOMAIN earthquakes :
                earthquakes'[i].createdAt = now]_vars

\* a row inserted at time 1 was saved again at time 3 and still has
\* createdAt 1
C24_Witness ==
    \E i \in DOMAIN earthquakes :
        earthquakes[i].createdAt = 1 /\ earthquakes[i].updated = 3

(***************************************************************************)
(* C25: no mutation removes a real row: in every step the real rows of the *)
(* earthquakes table are at least as many as before (the test-data         *)
(* operations remove rows with isTest = true only).                        *)
(***************************************************************************)
RealRows(rows) == SelectSeq(rows, LAMBDA row : ~row.isTest)

C25_RealRowsNeverDeleted ==
    [][Len(RealRows(earthquakes')) >= Len(RealRows(earthquakes))]_vars

(***************************************************************************)
(* C29: after any sequence of saveRealEarthquake, saveTestEarthquake and   *)
(* processNewEarthquake calls the earthquakes table holds at most one row  *)
(* per earthquake id.                                                      *)
(***************************************************************************)
C29_AtMostOneRowPerId ==
    \A id \in EqIds : Cardinality(RowsWithId(id)) <= 1

DocumentedSignal(category, distance) ==
    IF category = "SuperTY" /\ distance <= 50 THEN 5
    ELSE IF \/ category = "SuperTY" /\ distance <= 100
            \/ category = "TY" /\ distance <= 50 THEN 4
    ELSE IF \/ category = "TY" /\ distance <= 100
            \/ category = "STS" /\ distance <= 50 THEN 3
    ELSE IF \/ category = "TY" /\ distance <= 200
            \/ category = "STS" /\ distance <= 100
            \/ category = "TS" /\ distance <= 50 THEN 2
    ELSE 0

C27_SignalsAsDocumented ==
    (calc.fn = "signal" /\ calc.done /\ DocumentedSignal(calc.c1, calc.d1) # 0) =>
        calc.s11 = DocumentedSignal(calc.c1, calc.d1)

(***************************************************************************)
(* C28: in StormAlert the level of a storm after the PSWS signal has been  *)
(* taken into account is never lower (watch < alert < warning) than the    *)
(* level that its distance gave it.                                        *)
(***************************************************************************)
LevelRank(level) ==
    IF level = "watch" THEN 1 ELSE IF level = "alert" THEN 2 ELSE 3

C28_SignalOnlyUpgrades ==
    (calc.fn = "storm" /\ calc.done /\ calc.pushed) =>
        LevelRank(calc.alertLevel) >= LevelRank(calc.distanceLevel)

(***************************************************************************)
(* C30: within one session of RealtimeEarthquakes saveRealEarthquake is    *)
(* called at most once per earthquake id, overlapping runs included. A     *)
(* call that has returned or thrown leaves its id in processedIds, which   *)
(* every run consults, so a second call for an id is one issued while the  *)
(* first is awaited: no two runs await the save of the same id.            *)
(***************************************************************************)
\* run r has called saveRealEarthquake for this id and awaits it
AwaitsSaveOf(r, id) ==
    runs[r].pc = "awaitSave" /\ runs[r].list[runs[r].i].id = id

C30_SaveCalledOncePerId ==
    \A id \in EqIds : Cardinality({r \in RunIds : AwaitsSaveOf(r, id)}) <= 1

====
